---- MODULE Spec2Model ----
(***************************************************************************)
(* Model of the socialsimple API layer (app/app.py) over the posts table   *)
(* (app/db.py): the upload, feed and delete handlers, each cut at the      *)
(* awaits where another request can run in between.                        *)
(*                                                                         *)
(* Strings that the code inspects (content types, the post_id path         *)
(* segment) are sequences of one-character strings, so that startswith     *)
(* and UUID parsing are computed and not assumed.                          *)
(***************************************************************************)
EXTENDS Integers, Sequences, FiniteSets, TLC

\* ------------------------------------------------------------------ bounds
\* Number of HTTP requests served in one execution.
MaxReq == 3
\* Largest reading of the clock behind datetime.utcnow.
MaxTime == 1
\* Number of hex digits of a UUID in the model (32 in the uuid module).
UuidHexLen == 2

Requests == 1..MaxReq
Users == {"A", "B"}

\* ----------------------------------------------------------------- strings
HexChars == <<"0","1","2","3","4","5","6","7","8","9","a","b","c","d","e","f">>

HexVal(c) == (CHOOSE i \in 1..16 : HexChars[i] = c) - 1

IsHex(c) == \E i \in 1..16 : HexChars[i] = c

\* str.startswith
StartsWith(s, prefix) ==
    /\ Len(s) >= Len(prefix)
    /\ SubSeq(s, 1, Len(prefix)) = prefix

\* str.replace('-', '')
RECURSIVE StripHyphens(_)
StripHyphens(s) ==
    IF s = <<>> THEN <<>>
    ELSE IF Head(s) = "-" THEN StripHyphens(Tail(s))
    ELSE <<Head(s)>> \o StripHyphens(Tail(s))

\* int(hex, 16)
RECURSIVE HexToInt(_)
HexToInt(s) ==
    IF s = <<>> THEN 0
    ELSE 16 * HexToInt(SubSeq(s, 1, Len(s) - 1)) + HexVal(s[Len(s)])

\* '%0*x' % (width, n)
RECURSIVE IntToHex(_, _)
IntToHex(n, width) ==
    IF width = 0 THEN <<>>
    ELSE IntToHex(n \div 16, width - 1) \o <<HexChars[(n % 16) + 1]>>

\* uuid.UUID(post_id): the hyphens are dropped, then the text must be
\* UuidHexLen hex digits; anything else raises ValueError.
ValueError == [parsed |-> FALSE, int |-> 0]

UUID(hex) ==
    LET h == StripHyphens(hex) IN
    IF Len(h) = UuidHexLen /\ \A i \in 1..Len(h) : IsHex(h[i])
    THEN [parsed |-> TRUE, int |-> HexToInt(h)]
    ELSE ValueError

\* post.id.hex
UuidHex(id) == IntToHex(id, UuidHexLen)

\* str(post.id): the hex digits in groups, a hyphen between them
UuidStr(id) == <<Head(UuidHex(id))>> \o <<"-">> \o Tail(UuidHex(id))

\* ------------------------------------------------------------------ inputs
VideoPrefix == <<"v","i","d","e","o","/">>
NoContentType == <<"None">>
ContentTypes ==
    { <<"v","i","d","e","o","/","m","p","4">>,
      <<"i","m","a","g","e","/","p","n","g">>,
      <<"v","i","d","e","o">>,
      NoContentType }

\* What the media collaborator answers in response_metadata.http_status_code.
CollaboratorStatuses == {200, 403}

\* Where the work before the first await of upload_file raises, if at all.
UploadFaults == {"none", "tempfile", "copy", "collaborator"}
\* Where session.commit() / session.refresh() raises, if at all.
CommitFaults == {"none", "commit", "refresh"}

\* The {post_id} path segments a client sends.
PathSegments ==
    { UuidStr(1),
      UuidHex(1),
      UuidStr(2),
      [i \in 1..UuidHexLen |-> "z"],
      <<"n","o","-","u","u","i","d">> }

\* ------------------------------------------------------------------- state
VARIABLES
    posts,      \* the rows of table posts
    now,        \* last reading of the clock
    nextId,     \* stands for the next value of uuid.uuid4
    tempFiles,  \* paths that exist in the temp directory
    req,        \* per request in flight: position, arguments, locals
    out,        \* the request answered last: arguments, locals, response
    acked       \* per post id: how many deletes were answered with success

vars == <<posts, now, nextId, tempFiles, req, out, acked>>

NoPath == <<>>
NotRead == <<>>
NoPost == [none |-> TRUE]
NoResp == [status |-> 0, body |-> [type |-> "none"]]

IdleReq ==
    [pc |-> "idle", kind |-> "none", user |-> "A",
     content_type |-> NotRead, post_id |-> <<>>,
     temp_file_path |-> NoPath, closed |-> FALSE,
     post |-> NoPost, resp |-> NoResp]

\* a request that was answered: its locals are gone
DoneReq == [IdleReq EXCEPT !.pc = "done"]

Init ==
    /\ posts = {}
    /\ now = 0
    /\ nextId = 1
    /\ tempFiles = {}
    /\ req = [r \in Requests |-> IdleReq]
    /\ out = IdleReq
    /\ acked = [id \in {} |-> 0]

\* Requests arrive one after the other; they may overlap once started.
Arrives(r) ==
    /\ req[r].pc = "idle"
    /\ IF r = 1 THEN TRUE ELSE req[r - 1].pc # "idle"

\* --------------------------------------------------------------- responses
\* raise HTTPException(status_code=..., detail=...)
HTTPException(status_code, detail) ==
    [status |-> status_code, body |-> [type |-> "error", detail |-> detail]]

\* an exception that is not an HTTPException, with its message
Exception(message) ==
    [status |-> 0, body |-> [type |-> "error", detail |-> message]]

\* str(e): starlette prints an HTTPException as "<status_code>: <detail>"
Str(e) == IF e.status = 0 THEN <<e.body.detail>> ELSE <<e.status, e.body.detail>>

\* except Exception as e: raise HTTPException(status_code=500, detail=str(e))
\* HTTPException is an Exception, so the clause catches it as well.
ExceptException(e) == HTTPException(500, Str(e))

\* a returned value, sent with status 200
Ok(body) == [status |-> 200, body |-> body]

\* the request is answered
Finish(q, resp) == [q EXCEPT !.pc = "done", !.resp = resp]

\* ------------------------------------------------------------------ upload
TempPath(r) == <<"tmp", r>>

\* FileType with the prefix cut one character short
FileType_NoSlash(content_type) ==
    IF StartsWith(content_type, <<"v","i","d","e","o">>) THEN "video" ELSE "image"

\* 'video' if file.content_type.startswith("video/") else "image"
FileType(content_type) ==
    IF StartsWith(content_type, VideoPrefix) THEN "video" ELSE "image"

\* Post(user_id=..., caption=..., url=..., file_type=..., file_name=...):
\* id and created_at are column defaults, filled in when the row is written.
Post(user_id, caption, url, file_type, file_name) ==
    [user_id |-> user_id, caption |-> caption, url |-> url,
     file_type |-> file_type, file_name |-> file_name]

\* the INSERT of session.commit(): the column defaults are applied
Row(post, id, created_at) ==
    [id |-> id, user_id |-> post.user_id, caption |-> post.caption,
     url |-> post.url, file_type |-> post.file_type,
     file_name |-> post.file_name, created_at |-> created_at]

\* a finally block that leaves the temp file behind
Unlink_Skipped(files, temp_file_path) == files

\* finally: if temp_file_path and os.path.exists(temp_file_path): os.unlink(...)
Unlink(files, temp_file_path) ==
    IF temp_file_path # NoPath /\ temp_file_path \in files
    THEN files \ {temp_file_path}
    ELSE files

\* finally: file.file.close()
Close(q) == [q EXCEPT !.closed = TRUE]

\* upload_file up to its first await (session.commit): the temp file, the
\* call of the media collaborator, the staged Post.
Upload(r) ==
    /\ Arrives(r)
    /\ \E user \in Users, fault \in UploadFaults, status \in CollaboratorStatuses :
        LET temp_file_path == IF fault = "tempfile" THEN NoPath ELSE TempPath(r)
            written == IF fault = "tempfile" THEN tempFiles
                       ELSE tempFiles \cup {TempPath(r)}
            q == [IdleReq EXCEPT !.kind = "upload", !.user = user,
                                 !.temp_file_path = temp_file_path]
        IN
        IF fault # "none"
        THEN \* the exception reaches except Exception, then finally
             /\ out' = Finish(Close(q), ExceptException(Exception(fault)))
             /\ req' = [req EXCEPT ![r] = DoneReq]
             /\ tempFiles' = Unlink(written, temp_file_path)
        ELSE IF status # 200
        THEN \* the if is skipped: the function falls off its end
             /\ out' = Finish(Close(q), Ok([type |-> "null"]))
             /\ req' = [req EXCEPT ![r] = DoneReq]
             /\ tempFiles' = Unlink(written, temp_file_path)
        ELSE \* file.content_type is read here and nowhere else
             \E content_type \in ContentTypes :
                LET qc == [q EXCEPT !.content_type = content_type] IN
                IF content_type = NoContentType
                THEN \* None has no startswith: AttributeError
                     /\ out' = Finish(Close(qc),
                                     ExceptException(Exception("AttributeError")))
                     /\ req' = [req EXCEPT ![r] = DoneReq]
                     /\ tempFiles' = Unlink(written, temp_file_path)
                ELSE \* session.add(post); await session.commit()
                     /\ req' = [req EXCEPT ![r] =
                           [qc EXCEPT !.pc = "commit",
                                      !.post = Post(user, "hi", <<"url", r>>,
                                                    FileType(content_type),
                                                    <<"name", r>>)]]
                     /\ tempFiles' = written
                     /\ out' = out
    /\ UNCHANGED <<posts, now, nextId, acked>>

\* await session.commit(); await session.refresh(post); return post
\* The id of the new row is known to no client before this answer, so no
\* other request can name the row between the commit and the refresh: the
\* two awaits are one step.
UploadCommit(r) ==
    /\ req[r].kind = "upload"
    /\ req[r].pc = "commit"
    /\ \E fault \in CommitFaults, t \in now..MaxTime :
        LET q == req[r]
            row == Row(q.post, nextId, t)
        IN
        /\ tempFiles' = Unlink(tempFiles, q.temp_file_path)
        /\ req' = [req EXCEPT ![r] = DoneReq]
        /\ IF fault = "commit"
           THEN /\ out' = Finish(Close(q), ExceptException(Exception(fault)))
                /\ UNCHANGED <<posts, now, nextId>>
           ELSE /\ posts' = posts \cup {row}
                /\ now' = t
                /\ nextId' = nextId + 1
                /\ out' = IF fault = "refresh"
                          THEN Finish(Close(q), ExceptException(Exception(fault)))
                          ELSE Finish(Close([q EXCEPT !.post = row]),
                                      Ok([type |-> "post", post |-> row]))
    /\ UNCHANGED acked

\* -------------------------------------------------------------------- feed
\* order_by(Post.created_at.asc())
OrderByCreatedAtAsc(rows) ==
    { s \in [1..Cardinality(rows) -> rows] :
        /\ \A i, j \in 1..Cardinality(rows) : i # j => s[i] # s[j]
        /\ \A i, j \in 1..Cardinality(rows) :
              i < j => s[i].created_at <= s[j].created_at }

\* select(Post).order_by(Post.created_at.desc()): every order of the rows in
\* which created_at never increases (the order of equal keys is the store's).
OrderByCreatedAtDesc(rows) ==
    { s \in [1..Cardinality(rows) -> rows] :
        /\ \A i, j \in 1..Cardinality(rows) : i # j => s[i] # s[j]
        /\ \A i, j \in 1..Cardinality(rows) :
              i < j => s[i].created_at >= s[j].created_at }

\* user_dict.get(post.user_id, "Unknown"), user_dict built from table user
UserDict == [u \in Users |-> <<u, "@", "example">>]
Email(user_id) == IF user_id \in DOMAIN UserDict THEN UserDict[user_id] ELSE "Unknown"

\* post.created_at.isoformat()
IsoFormat(t) == <<"1970-01-01T00:00:", t>>

\* is_owner tested the wrong way round
IsOwner_Negated(post, user) == post.user_id # user

\* "is_owner": post.user_id == user.id
IsOwner(post, user) == post.user_id = user

\* one entry of posts_data
PostView(post, user) ==
    [id |-> UuidStr(post.id), user_id |-> post.user_id,
     caption |-> post.caption, url |-> post.url, file_type |-> post.file_type,
     file_name |-> post.file_name, created_at |-> IsoFormat(post.created_at),
     is_owner |-> IsOwner(post, user), email |-> Email(post.user_id)]

\* a feed of the caller's own posts only
FeedRows_OwnOnly(rows, user) == {p \in rows : p.user_id = user}

\* the rows get_feed selects: all of them, whoever asks
FeedRows(rows, user) == rows

\* get_feed: the select of the posts decides the answer; table user is not
\* written by any handler here.
Feed(r) ==
    /\ Arrives(r)
    /\ \E user \in Users :
       \E ordered \in OrderByCreatedAtDesc(FeedRows(posts, user)) :
        out' = Finish([IdleReq EXCEPT !.kind = "feed", !.user = user],
                      Ok([type |-> "feed",
                          posts |-> [i \in DOMAIN ordered |->
                                        PostView(ordered[i], user)]]))
    /\ req' = [req EXCEPT ![r] = DoneReq]
    /\ UNCHANGED <<posts, now, nextId, tempFiles, acked>>

\* ------------------------------------------------------------------ delete
\* select(Post).where(Post.id == post_uuid), .scalars().first()
First(rows, post_uuid) ==
    IF \E p \in rows : p.id = post_uuid
    THEN CHOOSE p \in rows : p.id = post_uuid
    ELSE NoPost

\* delete_post up to session.delete: parse, look up, the two checks. Every
\* raise is inside the try, so it is caught by except Exception.
Delete(r) ==
    /\ Arrives(r)
    /\ \E user \in Users, post_id \in PathSegments :
        LET q == [IdleReq EXCEPT !.kind = "delete", !.user = user,
                                 !.post_id = post_id]
            post_uuid == UUID(post_id)
            post == First(posts, post_uuid.int)
        IN
        IF ~post_uuid.parsed
        THEN /\ out' = Finish(q, ExceptException(Exception("ValueError")))
             /\ req' = [req EXCEPT ![r] = DoneReq]
        ELSE IF post = NoPost
        THEN /\ out' = Finish(q, ExceptException(HTTPException(404, "Post not found")))
             /\ req' = [req EXCEPT ![r] = DoneReq]
        ELSE IF post.user_id # user
        THEN /\ out' = Finish([q EXCEPT !.post = post],
                              ExceptException(HTTPException(403,
                                  "You don't have permission to delete this post.")))
             /\ req' = [req EXCEPT ![r] = DoneReq]
        ELSE /\ req' = [req EXCEPT ![r] = [q EXCEPT !.pc = "commit", !.post = post]]
             /\ out' = out
    /\ UNCHANGED <<posts, now, nextId, tempFiles, acked>>

\* DELETE FROM posts WHERE user_id = :user_id
DeleteRow_ByOwner(rows, post) == {p \in rows : p.user_id # post.user_id}

\* DELETE FROM posts WHERE id = :id. A row that is already gone makes the
\* statement match nothing, which the ORM reports as a warning only.
DeleteRow(rows, post) == {p \in rows : p.id # post.id}

\* the count of success answers for a post id, one more
Acknowledge(counts, id) ==
    [i \in DOMAIN counts \cup {id} |->
        IF i = id THEN (IF i \in DOMAIN counts THEN counts[i] + 1 ELSE 1)
        ELSE counts[i]]

\* await session.delete(post); await session.commit(); return {"success": True}
DeleteCommit(r) ==
    /\ req[r].kind = "delete"
    /\ req[r].pc = "commit"
    /\ posts' = DeleteRow(posts, req[r].post)
    /\ out' = Finish(req[r], Ok([type |-> "ack", success |-> TRUE,
                                 message |-> "Post deleted successfully"]))
    /\ acked' = Acknowledge(acked, req[r].post.id)
    /\ req' = [req EXCEPT ![r] = DoneReq]
    /\ UNCHANGED <<now, nextId, tempFiles>>

\* -------------------------------------------------------------------- spec
Next ==
    \E r \in Requests :
        \/ Upload(r)
        \/ UploadCommit(r)
        \/ Feed(r)
        \/ Delete(r)
        \/ DeleteCommit(r)

Spec == Init /\ [][Next]_vars

\* ------------------------------------------------------------- vocabulary
Ids(rows) == {p.id : p \in rows}

\* request r is answered in this step; out' is then its answer
Completes(r) == req[r].pc # "done" /\ req'[r].pc = "done"

\* request r arrives and is answered in this step, before any await that
\* lets another request in (for a delete: by its lookup and checks)
AnsweredOnArrival(r) == req[r].pc = "idle" /\ req'[r].pc = "done"

IsFeed(q) == q.kind = "feed" /\ q.resp.status = 200
FeedOf(q) == q.resp.body.posts
FeedIds(q) == {UUID(FeedOf(q)[i].id).int : i \in DOMAIN FeedOf(q)}
StoredRow(view) == CHOOSE p \in posts : p.id = UUID(view.id).int

IsAck(q) ==
    /\ q.kind = "delete"
    /\ q.resp.status = 200
    /\ q.resp.body.type = "ack"
    /\ q.resp.body.success

ReturnsPost(q) ==
    /\ q.kind = "upload"
    /\ q.resp.status = 200
    /\ q.resp.body.type = "post"

\* ------------------------------------------------------------------ claims
\* C1: a DELETE by a caller who is not the owner of the existing post is
\* answered with 403 and leaves the post stored.
C1_ForeignDeleteForbidden ==
    [][\A r \in Requests :
        (/\ AnsweredOnArrival(r)
         /\ out'.kind = "delete"
         /\ out'.post # NoPost
         /\ out'.post.user_id # out'.user)
        => (/\ out'.resp.status = 403
            /\ out'.post \in posts')]_vars

\* C2: a DELETE with a well-formed UUID that matches no stored post is
\* answered with 404, whoever asks, and leaves the stored posts unchanged.
C2_MissingDeleteNotFound ==
    [][\A r \in Requests :
        (/\ AnsweredOnArrival(r)
         /\ out'.kind = "delete"
         /\ UUID(out'.post_id).parsed
         /\ UUID(out'.post_id).int \notin Ids(posts))
        => (/\ out'.resp.status = 404
            /\ posts' = posts)]_vars

\* C3: a DELETE by the owner of an existing post is never turned down, its
\* answer is {success: true}, it removes that row and no other, a removed id
\* never comes back, and a feed response lists exactly the rows stored when
\* it is made (so it omits the deleted post and keeps the others).
C3_OwnerDeleteRemovesExactlyThatPost ==
    [][/\ \A r \in Requests :
            /\ (/\ AnsweredOnArrival(r)
                /\ out'.kind = "delete"
                /\ UUID(out'.post_id).parsed)
               => ~ \E p \in posts : /\ p.id = UUID(out'.post_id).int
                                     /\ p.user_id = out'.user
            /\ (/\ req[r].kind = "delete"
                /\ req[r].pc = "commit"
                /\ req'[r].pc = "done")
               => (/\ IsAck(out')
                   /\ out'.post = req[r].post
                   /\ posts' = posts \ {req[r].post})
            /\ (Completes(r) /\ IsFeed(out'))
               => FeedIds(out') = Ids(posts')
       /\ \A id \in 1..(nextId - 1) :
            id \notin Ids(posts) => id \notin Ids(posts')]_vars

\* C3 witness: the owner's delete was acknowledged, the row is gone and
\* another post is still stored.
C3_Witness ==
    /\ IsAck(out)
    /\ out.post.user_id = out.user
    /\ out.post.id \notin Ids(posts)
    /\ posts # {}

\* C4: a DELETE whose path segment is no UUID is answered with 400 or 422
\* and leaves the stored posts unchanged.
C4_BadUuidClientError ==
    [][\A r \in Requests :
        (/\ AnsweredOnArrival(r)
         /\ out'.kind = "delete"
         /\ ~UUID(out'.post_id).parsed)
        => (/\ out'.resp.status \in {400, 422}
            /\ posts' = posts)]_vars

\* C5: an upload is answered with success carrying a Post exactly when that
\* Post was added to the store; every other answer is an explicit error
\* (500) and adds nothing.
C5_UploadSuccessIffPersisted ==
    [][\A r \in Requests :
        (Completes(r) /\ out'.kind = "upload")
        => IF out'.resp.status = 200
           THEN /\ out'.resp.body.type = "post"
                /\ out'.resp.body.post \notin posts
                /\ posts' = posts \cup {out'.resp.body.post}
           ELSE /\ out'.resp.status = 500
                /\ posts' = posts]_vars

\* C6: the Post an upload returns is stored, belongs to the caller and has
\* file_type "video" if the content type starts with "video/" and "image"
\* otherwise; no stored row has another file_type.
C6_FileTypeAndOwner ==
    /\ \A p \in posts : p.file_type \in {"video", "image"}
    /\ ReturnsPost(out)
       => /\ out.resp.body.post \in posts
          /\ out.resp.body.post.user_id = out.user
          /\ out.resp.body.post.file_type =
                IF /\ Len(out.content_type) >= 6
                   /\ \A i \in 1..6 : out.content_type[i] = VideoPrefix[i]
                THEN "video" ELSE "image"

\* C6 witness: an upload of content type video/mp4 returned its Post.
C6_Witness ==
    /\ ReturnsPost(out)
    /\ out.content_type = <<"v","i","d","e","o","/","m","p","4">>
    /\ out.resp.body.post.file_type = "video"
    /\ out.resp.body.post \in posts

\* C7: a feed response lists every stored post, whoever asks, and is_owner
\* is true exactly for the rows whose user_id is the caller's id.
C7_FeedGlobalAndIsOwner ==
    IsFeed(out)
    => /\ FeedIds(out) = Ids(posts)
       /\ Len(FeedOf(out)) = Cardinality(posts)
       /\ \A i \in DOMAIN FeedOf(out) :
             FeedOf(out)[i].is_owner = (StoredRow(FeedOf(out)[i]).user_id = out.user)

\* C7 witness: a feed with a post of the caller and a post of someone else.
C7_Witness ==
    /\ IsFeed(out)
    /\ \E i, j \in DOMAIN FeedOf(out) :
          /\ FeedOf(out)[i].is_owner
          /\ ~FeedOf(out)[j].is_owner

\* C8: in a feed response a post with a later created_at stands before
\* every post with an earlier one.
C8_FeedNewestFirst ==
    IsFeed(out)
    => \A i, j \in DOMAIN FeedOf(out) :
          StoredRow(FeedOf(out)[i]).created_at > StoredRow(FeedOf(out)[j]).created_at
          => i < j

\* C8 witness: a feed with two posts of different created_at.
C8_Witness ==
    /\ IsFeed(out)
    /\ \E i, j \in DOMAIN FeedOf(out) :
          StoredRow(FeedOf(out)[i]).created_at > StoredRow(FeedOf(out)[j]).created_at

\* C9: when an upload has been answered its temp file does not exist and
\* its input stream is closed; a temp file exists only for an upload that
\* is still waiting for its commit.
C9_TempFileRemovedStreamClosed ==
    /\ out.kind = "upload"
       => /\ out.closed
          /\ out.temp_file_path \notin tempFiles
    /\ \A f \in tempFiles :
          \E r \in Requests : /\ req[r].kind = "upload"
                              /\ req[r].pc = "commit"
                              /\ req[r].temp_file_path = f

\* C9 witness: an upload whose temp file had been written failed in
\* session.commit and was answered with 500.
C9_Witness ==
    /\ out.kind = "upload"
    /\ out.resp.status = 500
    /\ out.temp_file_path # NoPath
    /\ out.post # NoPost
    /\ out.closed
    /\ out.temp_file_path \notin tempFiles

\* C10: for any post at most one delete is answered with success.
C10_DeleteSucceedsOnce ==
    \A id \in DOMAIN acked : acked[id] <= 1

\* -------------------------------------------------------------- supporting
\* With C1: a delete by a caller who is not the owner changes no stored row,
\* whatever its status code.
ForeignDeleteKeepsStore ==
    [][\A r \in Requests :
        (/\ AnsweredOnArrival(r)
         /\ out'.kind = "delete"
         /\ out'.post # NoPost
         /\ out'.post.user_id # out'.user)
        => (posts' = posts /\ out'.post \in posts')]_vars

\* With C2 and C4: a delete that is turned down changes no stored row.
RejectedDeleteKeepsStore ==
    [][\A r \in Requests :
        (AnsweredOnArrival(r) /\ out'.kind = "delete") => posts' = posts]_vars

\* With C10: a delete whose lookup runs after a delete of the same post was
\* acknowledged finds no row, so it is never acknowledged itself.
LaterDeleteFindsNothing ==
    [][\A r \in Requests :
        (req[r].pc = "idle" /\ req'[r].pc = "commit" /\ req'[r].kind = "delete")
        => req'[r].post.id \notin DOMAIN acked]_vars

====
